---- MODULE Spec2Model ----
(***************************************************************************)
(* THcHallCSpectrometer (hcana): the reconstruction coefficient table load *)
(* (ReadDatabase) and the golden track selection (TrackCalc), as state     *)
(* machines translated from src/src/THcHallCSpectrometer.cxx.              *)
(*                                                                         *)
(* Numbers.  The code computes in double precision; the model uses         *)
(* integers in a fixed unit per quantity, so that every comparison of the  *)
(* code is an integer comparison:                                          *)
(*   chi-square                      unit 10^6  (10000000000.0 is 10000)   *)
(*   angles, target y, delta, beta,                                        *)
(*   beta chi-square, focal plane time,                                    *)
(*   the prune thresholds            unit 0.01  (0.08 is 8, 13.0 is 1300)  *)
(* In the target transform (FindVertices): the focal plane x and y are in  *)
(* cm and the angles in 0.01 rad, so that the five inputs hut[] are in     *)
(* unit 0.01; the sums, the offsets and the target quantities are in unit  *)
(* 10^-4 and the momentum is in unit 10^-6.                                *)
(* A quotient chi2/ndof is kept as the pair <<chi2, ndof>> and compared by *)
(* IEEE rules (x/0 is an infinity, 0/0 is a NaN).                          *)
(***************************************************************************)
EXTENDS Integers, Sequences, FiniteSets, TLC

(* ------------------------------ bounds -------------------------------- *)

\* Longest coefficient file, in lines.
MaxLines == 4

\* Most candidate tracks in one event.
MaxTracks == 2

VARIABLES
  \* the coefficient file on disk (environment)
  dbExists,      \* whether the file can be opened
  dbFile,        \* the sequence of its lines
  dbNewline,     \* whether the last line of the file ends with '\n'
  \* THcHallCSpectrometer members written by ReadDatabase
  fReconTerms,   \* std::vector<reconTerm>
  fNReconTerms,  \* Int_t
  \* the outcome of the last ReadDatabase call
  dbStatus,      \* "none" before the first call, else kOK or kInitError
  dbHodoFound,   \* whether that call found the hodoscope detector
  \* history of the calls
  loadedFile,    \* the <<exists, file, newline>> the last call found
  reloaded       \* the last call read the same file as the call before it,
                 \* and that call returned kOK

VARIABLES
  \* configuration, read by ReadDatabase (lines 212-234)
  fSelUsingScin,   \* 0 or 1
  fSelUsingPrune,  \* 0 or 1
  trSorting,       \* GetTrSorting(): fProperties & kSortTracks
  fPrune,          \* fPruneXp .. fPruneNPMT, as one record
  fPruneLoaded,    \* history: the prune thresholds as LoadParmValues left them
                   \* (lines 226-234)
  fCalib,          \* fPhiOffset, fThetaOffset, fDeltaOffset, fPcentral (lines 203-209)
  \* the event
  fTracks,         \* the TClonesArray of THaTrack pointers (0-based At(i) is fTracks[i+1])
  fNtracks,        \* set by FindVertices (line 329)
  fNScinHits,      \* fHodo->GetNScinHits(ip), ip = 0..fNPlanes-1 (1-based here)
  fGoodRawPad,     \* fHodo->GetGoodRawPad(i), the flat hit list (1-based here)
  \* TrackCalc
  pc,              \* where TrackCalc is
  fGoldenTrack,    \* NULL, Stale, or the id of a track of fTracks
  fGoodTrack,      \* member: index of the best track so far (0-based, -1 none)
  fChi2Min,        \* member: best chi2/ndof so far, a quotient <<chi2, ndof>>
  itrack,          \* loop index of the strategy B track loop (0-based)
  fRawIndex,       \* running index into the flat hit list
  fY2Dmin,         \* best plane 4 distance so far
  fX2Dmin,         \* best plane 3 distance so far
  fX2D,            \* new Double_t[fNtracks]: plane 3 distance per track
  fY2D,            \* new Double_t[fNtracks]: plane 4 distance per track
  f2XHits,         \* the paddles i with f2XHits[i] == 0 (marked hit)
  f2YHits,         \* the paddles i with f2YHits[i] == 0 (marked hit)
  fKeep,           \* new Bool_t[fNtracks], the slots initialised so far
  fReject,         \* new Int_t[fNtracks], the slots initialised so far
  icut,            \* the next cut of strategy C (1..NCuts)
  fNGood,          \* local: kept tracks passing the cut just counted
  ret,             \* the value TrackCalc returned
  nTrackTimes,     \* calls of TrackTimes in this event
  goldenAtEntry,   \* history: fGoldenTrack when the event arrived
  scratch,         \* the arrays this TrackCalc call has allocated with new[]
                   \* and not released with delete[]
  leakedScratch    \* whether an array of an earlier call is still allocated

dbVars == <<dbExists, dbFile, dbNewline, fReconTerms, fNReconTerms, dbStatus,
            dbHodoFound, loadedFile, reloaded>>

cfgVars == <<fSelUsingScin, fSelUsingPrune, trSorting, fCalib, fPruneLoaded>>

evVars == <<fTracks, fNtracks, fNScinHits, fGoodRawPad>>

scinVars == <<itrack, fRawIndex, fY2Dmin, fX2Dmin, fX2D, fY2D, f2XHits, f2YHits>>

pruneVars == <<fKeep, fReject, icut, fNGood>>

heapVars == <<scratch, leakedScratch>>

selVars == <<cfgVars, fPrune, evVars, pc, fGoldenTrack, fGoodTrack, fChi2Min,
             scinVars, pruneVars, ret, nTrackTimes, goldenAtEntry, heapVars>>

vars == <<dbVars, selVars>>

(* ---------------------- the coefficient file -------------------------- *)

kOK == "kOK"
kInitError == "kInitError"

\* A line of text, by what the code looks at: its first character (line[0],
\* the terminating '\0' for an empty line), its first four characters
\* (line.compare(0,4,...)) and the items sscanf converts from it in order
\* under " %le %le %le %le %1d%1d%1d%1d%1d" (it stops at the first item
\* that does not convert).
CommentLine == [c0 |-> "!", pfx |-> "! co", items |-> <<>>]
SepLine == [c0 |-> " ", pfx |-> " ---", items |-> <<>>]
HeaderLine == [c0 |-> "h", pfx |-> "h_an", items |-> <<>>]
\* " 1.0 0.0 0.0 0.0 10000"
FullDataLine == [c0 |-> " ", pfx |-> " 1.0", items |-> <<1, 0, 0, 0, 1, 0, 0, 0, 0>>]
\* " 2.5 3.5 junk": two floats convert, then the conversion stops
PartialDataLine == [c0 |-> " ", pfx |-> " 2.5", items |-> <<2, 3>>]
\* what getline leaves in the string when it extracts nothing
EmptyLine == [c0 |-> "", pfx |-> "", items |-> <<>>]
\* line=" " (line 292)
BlankLine == [c0 |-> " ", pfx |-> " ", items |-> <<>>]
\* line="!" (line 273)
BangLine == [c0 |-> "!", pfx |-> "!", items |-> <<>>]

LineSamples == {CommentLine, SepLine, HeaderLine, FullDataLine, PartialDataLine}

\* std::getline(ifile,line).good() on a stream whose next line is number
\* pos: the line read and whether the stream is still good().  A stream
\* that is not good extracts nothing and leaves the string alone; at the
\* end of the file nothing is extracted (the string is erased, eofbit and
\* failbit); a last line without '\n' is read but sets eofbit.
getline(file, nl, pos, line, good) ==
  IF ~good THEN [line |-> line, good |-> FALSE, pos |-> pos]
  ELSE IF pos > Len(file) THEN [line |-> EmptyLine, good |-> FALSE, pos |-> pos]
  ELSE IF pos = Len(file) /\ ~nl THEN [line |-> file[pos], good |-> FALSE, pos |-> pos + 1]
  ELSE [line |-> file[pos], good |-> TRUE, pos |-> pos + 1]

\* lines 273-278: skip the leading comment lines.
RECURSIVE SkipComments(_, _, _)
SkipComments(file, nl, s) ==
  IF s.good /\ s.line.c0 = "!"
  THEN SkipComments(file, nl, getline(file, nl, s.pos, s.line, s.good))
  ELSE s

\* lines 281-290: skip the header block up to the separator line.
RECURSIVE SkipHeader(_, _, _)
SkipHeader(file, nl, s) ==
  IF s.good /\ s.line.pfx # " ---"
  THEN SkipHeader(file, nl, getline(file, nl, s.pos, s.line, s.good))
  ELSE s

\* reconTerm(): all coefficients and exponents zero (line 300).
reconTerm == [Coeff |-> <<0, 0, 0, 0>>, Exp |-> <<0, 0, 0, 0, 0>>]

\* lines 301-308: sscanf stores the converted items, in order, into
\* Coeff[0..3] and then Exp[0..4]; the rest of the term is left alone.
sscanf(line, term) ==
  [Coeff |-> [k \in 1..4 |-> IF k <= Len(line.items) THEN line.items[k] ELSE term.Coeff[k]],
   Exp |-> [j \in 1..5 |-> IF 4 + j <= Len(line.items) THEN line.items[4 + j] ELSE term.Exp[j]]]

\* lines 299-311: the data block.  Each line read while the stream is good
\* and that is not the separator pushes one term, which sscanf fills at
\* index fNReconTerms (0-based; n + 1 here).
RECURSIVE ReadTerms(_, _, _, _, _)
ReadTerms(file, nl, s, terms, n) ==
  IF s.good /\ s.line.pfx # " ---"
  THEN LET pushed == Append(terms, reconTerm)
       IN ReadTerms(file, nl, getline(file, nl, s.pos, s.line, s.good),
                    [pushed EXCEPT ![n + 1] = sscanf(s.line, @)], n + 1)
  ELSE [s |-> s, terms |-> terms, n |-> n]

\* A load that keeps the terms of the table it finds.
KeptTerms(old) == old

\* fReconTerms.clear() (lines 149 and 296): the table the data block
\* starts from.
ClearedTerms(old) == <<>>

\* lines 273-317 on an open file: the table, the count and the status.
LoadCoefficients(file, nl, old) ==
  LET s0 == [line |-> BangLine, good |-> TRUE, pos |-> 1]
      s1 == SkipComments(file, nl, s0)
      s2 == SkipHeader(file, nl, s1)
      s3 == getline(file, nl, s2.pos, BlankLine, s2.good)
      r == ReadTerms(file, nl, s3, ClearedTerms(old), 0)
  IN [terms |-> r.terms, n |-> r.n,
      status |-> IF r.s.good THEN kOK ELSE kInitError]

\* THcHallCSpectrometer::ReadDatabase.  hodo: whether GetDetector("hod") is
\* a THcHodoscope.
ReadDatabase ==
  \E hodo \in BOOLEAN :
    /\ dbHodoFound' = hodo
    /\ loadedFile' = <<dbExists, dbFile, dbNewline>>
    /\ reloaded' = (loadedFile = <<dbExists, dbFile, dbNewline>> /\ dbStatus = kOK)
    /\ IF ~hodo
       THEN \* lines 175-179
            /\ dbStatus' = kInitError
            /\ UNCHANGED <<fReconTerms, fNReconTerms>>
       ELSE IF ~dbExists
       THEN \* line 191, then lines 267-271
            /\ dbStatus' = kInitError
            /\ fReconTerms' = ClearedTerms(fReconTerms)
            /\ fNReconTerms' = 0
       ELSE LET r == LoadCoefficients(dbFile, dbNewline, fReconTerms)
            IN /\ dbStatus' = r.status
               /\ fReconTerms' = r.terms
               /\ fNReconTerms' = r.n
    /\ UNCHANGED <<dbExists, dbFile, dbNewline>>
    /\ UNCHANGED selVars

\* Environment: the file is written, one line at a time.
AppendLine ==
  /\ dbExists
  /\ Len(dbFile) < MaxLines
  /\ \E l \in LineSamples : dbFile' = Append(dbFile, l)
  /\ dbNewline' = TRUE
  /\ UNCHANGED <<dbExists, fReconTerms, fNReconTerms, dbStatus, dbHodoFound, loadedFile, reloaded>>
  /\ UNCHANGED selVars

\* Environment: the final newline of the file is removed.
ChopNewline ==
  /\ dbExists
  /\ Len(dbFile) > 0
  /\ dbNewline
  /\ dbNewline' = FALSE
  /\ UNCHANGED <<dbExists, dbFile, fReconTerms, fNReconTerms, dbStatus, dbHodoFound, loadedFile, reloaded>>
  /\ UNCHANGED selVars

\* Environment: the file is created empty.
CreateFile ==
  /\ ~dbExists
  /\ dbExists' = TRUE
  /\ dbFile' = <<>>
  /\ dbNewline' = TRUE
  /\ UNCHANGED <<fReconTerms, fNReconTerms, dbStatus, dbHodoFound, loadedFile, reloaded>>
  /\ UNCHANGED selVars

(* ------------------- golden track selection: data --------------------- *)

\* The null pointer.
NULL == 0
\* A pointer to a track object of an earlier event.
Stale == -1
\* The content of an array slot nothing was stored in.
Unset == -1

\* chi2/ndof in IEEE double arithmetic, as the pair <<chi2, ndof>>, ndof >= 0.
IsNaN(q) == q[1] = 0 /\ q[2] = 0
IsPosInf(q) == q[1] > 0 /\ q[2] = 0
IsNegInf(q) == q[1] < 0 /\ q[2] = 0
IsFinite(q) == q[2] > 0

\* a < b on doubles: false when either is a NaN.
Less(a, b) ==
  IF IsNaN(a) \/ IsNaN(b) THEN FALSE
  ELSE IF IsPosInf(a) THEN FALSE
  ELSE IF IsNegInf(a) THEN ~IsNegInf(b)
  ELSE IF IsPosInf(b) THEN TRUE
  ELSE IF IsNegInf(b) THEN FALSE
  ELSE a[1] * b[2] < b[1] * a[2]

\* a == b on doubles.
Same(a, b) ==
  IF IsNaN(a) \/ IsNaN(b) THEN FALSE
  ELSE IF IsFinite(a) /\ IsFinite(b) THEN a[1] * b[2] = b[1] * a[2]
  ELSE (IsPosInf(a) /\ IsPosInf(b)) \/ (IsNegInf(a) /\ IsNegInf(b))

\* GetChi2() / GetNDoF() (lines 473, 607, 853).
Chi2PerDeg(t) == <<t.Chi2, t.NDoF>>

\* 10000000000.0, the value fChi2Min starts from (lines 463, 601, 650).
Chi2MinStart == 10000

\* 100., the value fY2Dmin and fX2Dmin start from (lines 463-464, 574).
DistStart == 100

Abs(x) == IF x < 0 THEN -x ELSE x
Max(a, b) == IF a < b THEN b ELSE a
Min(a, b) == IF a < b THEN a ELSE b

\* TMath::Nint(a/b) for b > 0: the nearest integer, a half going to the
\* even neighbour.
Nint(a, b) ==
  LET q == a \div b
      r == a % b
  IN IF 2 * r < b THEN q
     ELSE IF 2 * r > b THEN q + 1
     ELSE IF q % 2 = 0 THEN q ELSE q + 1

\* --- configuration samples (values LoadParmValues stores, lines 212-234) ---

\* hodo_num_planes
fNPlanes == 4
\* sel_ndegreesmin
fSelNDegreesMin == 1
\* sel_dedx1min, sel_dedx1max
fSeldEdX1Min == 0
fSeldEdX1Max == 10
\* sel_betamin, sel_betamax (unit 0.01)
fSelBetaMin == 10
fSelBetaMax == 150
\* sel_etmin, sel_etmax
fSelEtMin == 0
fSelEtMax == 10
\* scin_2x_zpos, scin_2x_dzpos, scin_2y_zpos, scin_2y_dzpos (cm)
fScin2XZpos == 300
fScin2XdZpos == 2
fScin2YZpos == 320
fScin2YdZpos == 2
\* partmass and the momentum of the tracks, in one unit
fPartMass == 4

\* --- the hodoscope collaborator (fHodo) ---

\* fHodo->GetNPaddles(2), "scin_2x_nr = 16" (line 542)
NPaddles2X == 16
\* fHodo->GetNPaddles(3), "scin_2y_nr = 10" (line 511)
NPaddles2Y == 10
\* fHodo->GetPlaneCenter(2), GetPlaneSpacing(2) (cm)
PlaneCenter2X == -60
PlaneSpacing2X == 8
\* fHodo->GetPlaneCenter(3), GetPlaneSpacing(3) (cm)
PlaneCenter2Y == 36
PlaneSpacing2Y == 8
\* fHodo->GetStartTimeCenter() (unit 0.01 ns)
StartTimeCenter == 3200

\* --- the floors of the prune thresholds (lines 636-644, unit 0.01) ---
FloorXp == 8
FloorYp == 4
FloorYtar == 400
FloorDelta == 1300
FloorBeta == 10
FloorDf == 100
FloorChiBeta == 200
FloorFpTime == 500
FloorNPMT == 600

\* The prune thresholds as configured: not set (0), or set above the floors.
PruneUnset ==
  [Xp |-> 0, Yp |-> 0, Ytar |-> 0, Delta |-> 0, Beta |-> 0, Df |-> 0,
   ChiBeta |-> 0, FpTime |-> 0, NPMT |-> 0]

\* Thresholds set in the parameter file, some above their floor, some
\* below it, one on it.
PruneMixed ==
  [Xp |-> 10, Yp |-> 2, Ytar |-> 400, Delta |-> 2000, Beta |-> 5, Df |-> 100,
   ChiBeta |-> 100, FpTime |-> 600, NPMT |-> 0]

\* The thresholds are read by strategy C only.
PruneConfigs ==
  IF fSelUsingPrune = 1 THEN {PruneUnset, PruneMixed} ELSE {PruneUnset}

\* --- candidate tracks ---

\* A track every cut of every strategy accepts.  ptr is the identity of the
\* track object (its slot when the event was built); 0 is the null pointer.
BaseTrack ==
  [ptr |-> 1, Chi2 |-> 2, NDoF |-> 2,
   Dedx |-> 5, Beta |-> 60, Energy |-> 5,
   X |-> -60, Theta |-> 0, Y |-> 36, Phi |-> 0,
   TTheta |-> 0, TPhi |-> 0, TY |-> 0, Dp |-> 0, P |-> 3,
   NPMT |-> 8, BetaChi2 |-> 100, FPTime |-> 3200,
   GoodPlane4 |-> 1, GoodPlane3 |-> 1]

\* An empty slot of the array: At(i) returns the null pointer.
NullTrack == [BaseTrack EXCEPT !.ptr = NULL]

IsNull(t) == t.ptr = NULL

\* chi-square far above the 10000000000.0 fChi2Min starts from
HugeChi2 == 4 * Chi2MinStart

\* Strategy A looks at chi2 and ndof only.
TracksA ==
  {[BaseTrack EXCEPT !.Chi2 = c, !.NDoF = n] : c \in {1, 2}, n \in {1, 2}}
    \cup {NullTrack}

\* Strategy B: qualifying tracks in two places of each plane and two fit
\* qualities, and tracks failing the chi-square sanity, a range cut or the
\* degrees of freedom cut.
TracksB ==
  {[BaseTrack EXCEPT !.Chi2 = c, !.Y = y] : c \in {1, 2}, y \in {36, -12}}
    \cup {[BaseTrack EXCEPT !.X = -36, !.Chi2 = 1]}
    \cup {[BaseTrack EXCEPT !.Chi2 = HugeChi2]}
    \cup {[BaseTrack EXCEPT !.Dedx = 10, !.Chi2 = c] : c \in {1, 2}}
    \cup {[BaseTrack EXCEPT !.NDoF = 1]}
    \cup {NullTrack}

\* Strategy C: the track passing every cut, with three fit qualities; one
\* track failing each cut; a track whose chi2/ndof is 0/0; an empty slot.
TracksC ==
  {[BaseTrack EXCEPT !.Chi2 = c] : c \in {1, 2, HugeChi2}}
    \cup {[BaseTrack EXCEPT !.TTheta = -8], [BaseTrack EXCEPT !.TPhi = 4],
          [BaseTrack EXCEPT !.TY = 400], [BaseTrack EXCEPT !.Dp = -1300],
          [BaseTrack EXCEPT !.Beta = 70], [BaseTrack EXCEPT !.NDoF = 0],
          [BaseTrack EXCEPT !.NPMT = 5], [BaseTrack EXCEPT !.BetaChi2 = 1],
          [BaseTrack EXCEPT !.FPTime = 2700], [BaseTrack EXCEPT !.GoodPlane4 = 0],
          [BaseTrack EXCEPT !.GoodPlane3 = 0]}
    \cup {[BaseTrack EXCEPT !.Chi2 = 0, !.NDoF = 0]}
    \cup {NullTrack}

\* The candidate sets of up to MaxTracks tracks over a set of samples, the
\* k-th slot holding the track object k.
RECURSIVE EventsOf(_, _)
EventsOf(samples, n) ==
  IF n = 0 THEN {<<>>}
  ELSE {Append(e, IF IsNull(t) THEN t ELSE [t EXCEPT !.ptr = n]) :
          e \in EventsOf(samples, n - 1), t \in samples}

Events(samples) == UNION {EventsOf(samples, n) : n \in 0..MaxTracks}

\* The hodoscope hits of the sample events: the hit counts of planes 1 and
\* 2 (their paddles play no role: paddle 0), and the hit paddles (0-based)
\* of plane 3 (2X) and of plane 4 (2Y) in the order of the flat hit list.
HodoEvents ==
  {[before |-> <<0, 0>>, x |-> <<>>, y |-> <<>>],
   [before |-> <<0, 0>>, x |-> <<>>, y |-> <<2>>],
   [before |-> <<1, 0>>, x |-> <<3>>, y |-> <<2>>],
   [before |-> <<1, 0>>, x |-> <<3>>, y |-> <<>>],
   [before |-> <<0, 0>>, x |-> <<3>>, y |-> <<0, 1, 2, 3, 4, 5, 6>>]}

RECURSIVE Zeros(_)
Zeros(n) == IF n = 0 THEN <<>> ELSE Append(Zeros(n - 1), 0)

(* ------------------------ the event arrives --------------------------- *)

\* The sample tracks of the strategy the configuration selects.
TrackSamples ==
  IF fSelUsingPrune = 1 THEN TracksC
  ELSE IF fSelUsingScin = 1 THEN TracksB
  ELSE TracksA

\* The hodoscope hits of an event: the strategies A and C do not read them.
HodoSamples ==
  IF fSelUsingScin = 1
  THEN HodoEvents
  ELSE {[before |-> <<0, 0>>, x |-> <<>>, y |-> <<>>]}

\* The upstream tracking stage has filled the track array and the
\* hodoscope its hit list, and FindVertices has set fNtracks (line 329).
NewEvent ==
  /\ pc = "idle"
  /\ \E e \in Events(TrackSamples), h \in HodoSamples :
       /\ fTracks' = e
       /\ fNtracks' = Len(e)
       /\ fNScinHits' = <<h.before[1], h.before[2], Len(h.x), Len(h.y)>>
       /\ fGoodRawPad' = Zeros(h.before[1] + h.before[2]) \o h.x \o h.y
  /\ pc' = "begin"
  /\ goldenAtEntry' = fGoldenTrack
  /\ UNCHANGED <<cfgVars, fPrune, fGoldenTrack, fGoodTrack, fChi2Min, scinVars,
                 pruneVars, ret, nTrackTimes>>
  /\ UNCHANGED <<dbVars, heapVars>>

\* The event is over: the upstream stage clears the track array (the track
\* objects of the event are gone, a pointer to one of them is stale), and
\* the locals of TrackCalc are dead.  The members fGoodTrack and fChi2Min
\* are written before they are read in every event (lines 463, 601, 650):
\* what they hold between two events is not kept.
ClearEvent ==
  /\ pc = "done"
  /\ pc' = "idle"
  /\ fTracks' = <<>>
  /\ fNtracks' = 0
  /\ fNScinHits' = <<0, 0, 0, 0>>
  /\ fGoodRawPad' = <<>>
  /\ fGoldenTrack' = IF fGoldenTrack = NULL THEN NULL ELSE Stale
  /\ itrack' = 0
  /\ fRawIndex' = -1
  /\ fY2Dmin' = DistStart
  /\ fX2Dmin' = DistStart
  /\ fX2D' = <<>>
  /\ fY2D' = <<>>
  /\ f2XHits' = {}
  /\ f2YHits' = {}
  /\ fKeep' = <<>>
  /\ fReject' = <<>>
  /\ icut' = 1
  /\ fNGood' = 0
  /\ nTrackTimes' = 0
  /\ fGoodTrack' = 0
  /\ fChi2Min' = <<0, 1>>
  /\ goldenAtEntry' = NULL
  /\ UNCHANGED <<cfgVars, fPrune, ret>>
  \* The pointers of the call are gone; what they pointed at and was not
  \* released stays allocated.
  /\ scratch' = {}
  /\ leakedScratch' = (leakedScratch \/ scratch # {})
  /\ UNCHANGED dbVars

(* ---------------------- TrackCalc: strategy A ------------------------- *)

\* lines 423-426: the scratch arrays, nothing stored in them yet.
RECURSIVE UnsetArray(_)
UnsetArray(n) == IF n = 0 THEN <<>> ELSE Append(UnsetArray(n - 1), Unset)

TC_Begin ==
  /\ pc = "begin"
  /\ fX2D' = UnsetArray(fNtracks)
  /\ fY2D' = UnsetArray(fNtracks)
  /\ f2XHits' = {}
  /\ f2YHits' = {}
  /\ pc' = "sorted"
  /\ UNCHANGED <<cfgVars, fPrune, evVars, fGoldenTrack, fGoodTrack, fChi2Min,
                 itrack, fRawIndex, fY2Dmin, fX2Dmin, pruneVars, ret, nTrackTimes>>
  /\ scratch' = {"fX2D", "fY2D", "f2XHits", "f2YHits"}
  /\ UNCHANGED leakedScratch
  /\ UNCHANGED <<goldenAtEntry, dbVars>>

\* The order of the sort: THaTrack::Compare is by chi2/ndof; an empty slot
\* sorts after every track.
SortsBefore(a, b) ==
  IF IsNull(a) THEN FALSE
  ELSE IF IsNull(b) THEN TRUE
  ELSE Less(Chi2PerDeg(a), Chi2PerDeg(b))

\* Insert t into the sorted sequence s after every element that does not
\* sort after it (a stable insertion).
RECURSIVE InsertSorted(_, _)
InsertSorted(s, t) ==
  IF s = <<>> THEN <<t>>
  ELSE IF SortsBefore(t, s[Len(s)])
       THEN Append(InsertSorted(SubSeq(s, 1, Len(s) - 1), t), s[Len(s)])
       ELSE Append(s, t)

\* fTracks->Sort(): ascending chi2/ndof, ties in the original order.
RECURSIVE Sort(_)
Sort(s) ==
  IF s = <<>> THEN <<>>
  ELSE InsertSorted(Sort(SubSeq(s, 1, Len(s) - 1)), s[Len(s)])

\* The array left as it is.
Unsorted(s) == s

\* An empty candidate set that leaves the golden track alone.
GoldenKept(old) == old

\* "else fGoldenTrack = NULL" (lines 452-453, 624-625, 872-873).
EmptySetGolden(old) == NULL

\* lines 431-432
SortIfEnabled(s) == IF trSorting THEN Sort(s) ELSE s

\* lines 429-454.  Line 450 copies *fGoldenTrack: with a null fGoldenTrack
\* that is undefined behaviour, here a crash or a run that goes on.
TC_SortedFirst ==
  /\ pc = "sorted"
  /\ IF fSelUsingScin = 0 /\ fSelUsingPrune = 0
     THEN /\ fTracks' = SortIfEnabled(fTracks)
          /\ IF fNtracks > 0
             THEN /\ fGoldenTrack' = fTracks'[1].ptr
                  /\ IF IsNull(fTracks'[1])
                     THEN pc' \in {"crashed", "scin"}
                     ELSE pc' = "scin"
             ELSE /\ fGoldenTrack' = EmptySetGolden(fGoldenTrack)
                  /\ pc' = "scin"
     ELSE /\ pc' = "scin"
          /\ UNCHANGED <<fTracks, fGoldenTrack>>
  /\ UNCHANGED <<cfgVars, fPrune, fNtracks, fNScinHits, fGoodRawPad, fGoodTrack,
                 fChi2Min, scinVars, pruneVars, ret, nTrackTimes>>
  /\ UNCHANGED <<goldenAtEntry, dbVars, heapVars>>

(* ---------------------- TrackCalc: strategy B ------------------------- *)

\* lines 456-466 and 624-625
TC_ScinEnter ==
  /\ pc = "scin"
  /\ IF fSelUsingScin = 1 /\ fNtracks > 0
     THEN /\ fChi2Min' = <<Chi2MinStart, 1>>
          /\ fGoodTrack' = -1
          /\ fY2Dmin' = DistStart
          /\ fX2Dmin' = DistStart
          /\ fRawIndex' = -1
          /\ itrack' = 0
          /\ pc' = "scinloop"
          /\ UNCHANGED fGoldenTrack
     ELSE /\ fGoldenTrack' = IF fSelUsingScin = 1
                             THEN EmptySetGolden(fGoldenTrack) ELSE fGoldenTrack
          /\ pc' = "prune"
          /\ UNCHANGED <<fChi2Min, fGoodTrack, fY2Dmin, fX2Dmin, fRawIndex, itrack>>
  /\ UNCHANGED <<cfgVars, fPrune, evVars, fX2D, fY2D, f2XHits, f2YHits,
                 pruneVars, ret, nTrackTimes>>
  /\ UNCHANGED <<goldenAtEntry, dbVars, heapVars>>

\* line 472
PassesNDegrees(t) == t.NDoF > fSelNDegreesMin

\* lines 475-480
PassesRanges(t) ==
  /\ t.Dedx > fSeldEdX1Min
  /\ t.Dedx < fSeldEdX1Max
  /\ t.Beta > fSelBetaMin
  /\ t.Beta < fSelBetaMax
  /\ t.Energy > fSelEtMin
  /\ t.Energy < fSelEtMax


\* What a read of the flat hit list past its end may return: some paddle
\* number, or a number that is no paddle of the plane (the store into
\* f2XHits or f2YHits is then outside the array).
NoPaddle == -1
GarbagePads == {0, 5, NoPaddle}

\* lines 490-507: the hits of plane ip (0-based) are the entries
\* first+1 .. first+GetNScinHits(ip) of the flat list, where first is the
\* value of fRawIndex + 1 when the plane is reached.  The paddles read for
\* the plane; g stands for every entry read past the end of the list.
PadsRead(first, n, g) ==
  {IF first + h <= Len(fGoodRawPad) THEN fGoodRawPad[first + h] ELSE g : h \in 1..n}

\* fRawIndex + 1 when the walk of a track, begun with the running index at
\* raw, reaches plane ip (0-based).
RECURSIVE FirstOfPlane(_, _)
FirstOfPlane(raw, ip) ==
  IF ip = 0 THEN raw + 1 ELSE FirstOfPlane(raw, ip - 1) + fNScinHits[ip]

\* The hits one walk of the planes reads (lines 490-507).
TotalHits == FirstOfPlane(-1, fNPlanes)

\* lines 509-511: the paddle (1-based) the track points at in plane 4.
fHitCnt4(t) ==
  LET hitpos4 == t.Y + t.Phi * (fScin2YZpos + fScin2YdZpos \div 2)
      icounter4 == Nint(PlaneCenter2Y - hitpos4, PlaneSpacing2Y) + 1
  IN Max(Min(icounter4, NPaddles2Y), 1)

\* lines 540-542: the paddle (1-based) the track points at in plane 3.
fHitCnt3(t) ==
  LET hitpos3 == t.X + t.Theta * (fScin2XZpos + fScin2XdZpos \div 2)
      icounter3 == Nint(hitpos3 - PlaneCenter2X, PlaneSpacing2X) + 1
  IN Max(Min(icounter3, NPaddles2X), 1)

\* The marked paddles of a plane in ascending order.
RECURSIVE Ascending(_)
Ascending(S) ==
  IF S = {} THEN <<>>
  ELSE LET m == CHOOSE x \in S : \A y \in S : x <= y
       IN <<m>> \o Ascending(S \ {m})

\* The last hit paddle the scan compares: ft == 6 (lines 530, 560).
LastFt == 6

\* The hit paddles the scan of a plane with n hit paddles compares.
ComparedFt(n) == Min(n, LastFt)

\* lines 517-534 and 548-564: fZap, the least |hitCnt - i - 1| over the hit
\* paddles i the scan compares, 0 when no paddle of the plane is hit.
Zap(hitCnt, marked) ==
  LET pads == Ascending(marked)
      m == ComparedFt(Len(pads))
      D == {Abs(hitCnt - pads[k] - 1) : k \in 1..m}
  IN IF m = 0 THEN 0 ELSE CHOOSE d \in D : \A e \in D : d <= e

\* The scan result taken whatever the number of tracks.
ZapAlways(hitCnt, marked) == Zap(hitCnt, marked)

\* lines 516-537, 547-570: the distance of a track in a plane.
Dist2D(hitCnt, marked) == IF fNtracks > 1 THEN Zap(hitCnt, marked) ELSE 0

\* One pass of the loop at line 467, for track itrack.
TC_ScinTrack ==
  /\ pc = "scinloop"
  /\ LET t == fTracks[itrack + 1]
         next == IF itrack + 1 < fNtracks THEN "scinloop" ELSE "fallback"
     IN IF IsNull(t)
        THEN \* line 470
             /\ pc' = "done"
             /\ ret' = -1
             /\ UNCHANGED <<fGoldenTrack, fGoodTrack, fChi2Min, scinVars>>
        ELSE IF ~(PassesNDegrees(t) /\ PassesRanges(t))
        THEN /\ pc' = next
             /\ itrack' = itrack + 1
             /\ UNCHANGED <<fGoldenTrack, fGoodTrack, fChi2Min, fRawIndex, fY2Dmin,
                            fX2Dmin, fX2D, fY2D, f2XHits, f2YHits, ret>>
        ELSE \E g \in GarbagePads :
             LET raw == fRawIndex
                 x == PadsRead(FirstOfPlane(raw, 2), fNScinHits[3], g)
                 y == PadsRead(FirstOfPlane(raw, 3), fNScinHits[4], g)
                 y2d == Dist2D(fHitCnt4(t), y)
                 x2d == Dist2D(fHitCnt3(t), x)
                 q == Chi2PerDeg(t)
                 \* lines 572-594
                 yBetter == y2d < fY2Dmin
                 x2Dmin1 == IF yBetter THEN DistStart ELSE fX2Dmin
                 chi1 == IF yBetter THEN <<Chi2MinStart, 1>> ELSE fChi2Min
                 xOk == y2d <= fY2Dmin /\ x2d <= x2Dmin1
                 chi2 == IF xOk /\ x2d < x2Dmin1 THEN <<Chi2MinStart, 1>> ELSE chi1
                 take == xOk /\ Less(q, chi2)
             IN IF NoPaddle \in x \cup y
                THEN \* a store outside f2XHits or f2YHits
                     /\ pc' = "crashed"
                     /\ UNCHANGED <<fGoldenTrack, fGoodTrack, fChi2Min, scinVars, ret>>
                ELSE /\ fRawIndex' = raw + TotalHits
                     /\ f2XHits' = x
                     /\ f2YHits' = y
                     /\ fY2D' = [fY2D EXCEPT ![itrack + 1] = y2d]
                     /\ fX2D' = [fX2D EXCEPT ![itrack + 1] = x2d]
                     /\ fX2Dmin' = IF take THEN x2d ELSE x2Dmin1
                     /\ fY2Dmin' = IF take THEN y2d ELSE fY2Dmin
                     /\ fChi2Min' = IF take THEN q ELSE chi2
                     /\ fGoodTrack' = IF take THEN itrack ELSE fGoodTrack
                     /\ fGoldenTrack' = IF take THEN t.ptr ELSE fGoldenTrack
                     /\ itrack' = itrack + 1
                     /\ pc' = next
                     /\ UNCHANGED ret
  /\ UNCHANGED <<cfgVars, fPrune, evVars, pruneVars, nTrackTimes>>
  /\ UNCHANGED <<goldenAtEntry, dbVars, heapVars>>

\* lines 601-620: the best chi2/ndof among the tracks i..fNtracks-1
\* (0-based) that pass the degrees of freedom cut, from the state b.
RECURSIVE FallbackScan(_, _)
FallbackScan(i, b) ==
  IF i >= fNtracks THEN b
  ELSE LET t == fTracks[i + 1]
       IN IF IsNull(t) THEN [b EXCEPT !.null = TRUE]
          ELSE IF PassesNDegrees(t) /\ Less(Chi2PerDeg(t), b.chi2Min)
          THEN FallbackScan(i + 1, [b EXCEPT !.good = i, !.chi2Min = Chi2PerDeg(t),
                                             !.golden = t.ptr])
          ELSE FallbackScan(i + 1, b)

\* lines 599-622
TC_ScinFallback ==
  /\ pc = "fallback"
  /\ IF fGoodTrack = -1
     THEN LET b == FallbackScan(0, [good |-> -1, chi2Min |-> <<Chi2MinStart, 1>>,
                                    golden |-> fGoldenTrack, null |-> FALSE])
          IN /\ fGoodTrack' = b.good
             /\ fChi2Min' = b.chi2Min
             /\ fGoldenTrack' = b.golden
             /\ pc' = IF b.null THEN "done" ELSE "prune"
             /\ ret' = IF b.null THEN -1 ELSE ret
     ELSE /\ pc' = "prune"
          /\ UNCHANGED <<fGoodTrack, fChi2Min, fGoldenTrack, ret>>
  /\ UNCHANGED <<cfgVars, fPrune, evVars, scinVars, pruneVars, nTrackTimes>>
  /\ UNCHANGED <<goldenAtEntry, dbVars, heapVars>>

(* ---------------------- TrackCalc: strategy C ------------------------- *)

\* The thresholds used as they were loaded.
Unclamped(p) == p

\* lines 636-644
ClampPrune(p) ==
  [Xp |-> Max(FloorXp, p.Xp), Yp |-> Max(FloorYp, p.Yp),
   Ytar |-> Max(FloorYtar, p.Ytar), Delta |-> Max(FloorDelta, p.Delta),
   Beta |-> Max(FloorBeta, p.Beta), Df |-> Max(FloorDf, p.Df),
   ChiBeta |-> Max(FloorChiBeta, p.ChiBeta), FpTime |-> Max(FloorFpTime, p.FpTime),
   NPMT |-> Max(FloorNPMT, p.NPMT)]

\* The cuts, in the order of the code (lines 665-847).
NCuts == 11

\* TMath::Sqrt of a perfect square.
Sqrt(n) == CHOOSE r \in 0..n : r * r = n

\* lines 733-734 and 741-742: fBetaP (unit 0.01), for momenta whose
\* fP*fP + fPartMass*fPartMass is a perfect square.
fBetaP(t) == (100 * t.P) \div Sqrt(t.P * t.P + fPartMass * fPartMass)

\* The condition under which the first loop of cut k counts a track.
Passes(k, t, p) ==
  CASE k = 1 -> Abs(t.TTheta) < p.Xp
    [] k = 2 -> Abs(t.TPhi) < p.Yp
    [] k = 3 -> Abs(t.TY) < p.Ytar
    [] k = 4 -> Abs(t.Dp) < p.Delta
    [] k = 5 -> Abs(t.Beta - fBetaP(t)) < p.Beta
    [] k = 6 -> 100 * t.NDoF >= p.Df
    [] k = 7 -> 100 * t.NPMT >= p.NPMT
    [] k = 8 -> t.BetaChi2 < p.ChiBeta /\ t.BetaChi2 > 1
    [] k = 9 -> Abs(t.FPTime - StartTimeCenter) < p.FpTime
    [] k = 10 -> t.GoodPlane4 = 1
    [] k = 11 -> t.GoodPlane3 = 1

\* The condition under which the second loop of cut k rejects a track.
Fails(k, t, p) ==
  CASE k = 1 -> Abs(t.TTheta) >= p.Xp
    [] k = 2 -> Abs(t.TPhi) >= p.Yp
    [] k = 3 -> Abs(t.TY) >= p.Ytar
    [] k = 4 -> Abs(t.Dp) >= p.Delta
    [] k = 5 -> Abs(t.Beta - fBetaP(t)) >= p.Beta
    [] k = 6 -> 100 * t.NDoF < p.Df
    [] k = 7 -> 100 * t.NPMT < p.NPMT
    [] k = 8 -> t.BetaChi2 >= p.ChiBeta \/ t.BetaChi2 <= 1
    [] k = 9 -> Abs(t.FPTime - StartTimeCenter) >= p.FpTime
    [] k = 10 -> t.GoodPlane4 # 1
    [] k = 11 -> t.GoodPlane3 # 1

\* What cut k adds to fReject of a track it rejects.
RejectCode(k) ==
  CASE k = 1 -> 1
    [] k = 2 -> 2
    [] k = 3 -> 10
    [] k = 4 -> 20
    [] k = 5 -> 100
    [] k = 6 -> 200
    [] k = 7 -> 100000
    [] k = 8 -> 1000
    [] k = 9 -> 2000
    [] k = 10 -> 10000
    [] k = 11 -> 20000

\* The index (1-based) of the first empty slot of the array, 0 if none.
FirstNull(s) ==
  IF \E i \in 1..Len(s) : IsNull(s[i])
  THEN CHOOSE i \in 1..Len(s) : IsNull(s[i]) /\ \A j \in 1..(i - 1) : ~IsNull(s[j])
  ELSE 0

\* lines 634-663 and 872-873
TC_PruneEnter ==
  /\ pc = "prune"
  /\ IF fSelUsingPrune = 1
     THEN /\ fPrune' = ClampPrune(fPrune)
          /\ IF fNtracks > 0
             THEN LET z == FirstNull(fTracks)
                      n == IF z = 0 THEN fNtracks ELSE z
                  IN /\ fChi2Min' = <<Chi2MinStart, 1>>
                     /\ fGoodTrack' = 0
                     /\ fKeep' = [i \in 1..n |-> TRUE]
                     /\ fReject' = [i \in 1..n |-> 0]
                     /\ icut' = 1
                     /\ pc' = IF z = 0 THEN "cut" ELSE "done"
                     /\ ret' = IF z = 0 THEN ret ELSE -1
                     /\ UNCHANGED fGoldenTrack
             ELSE /\ fGoldenTrack' = EmptySetGolden(fGoldenTrack)
                  /\ pc' = "times"
                  /\ UNCHANGED <<fChi2Min, fGoodTrack, fKeep, fReject, icut, ret>>
     ELSE /\ pc' = "times"
          /\ UNCHANGED <<fPrune, fGoldenTrack, fChi2Min, fGoodTrack, fKeep, fReject,
                         icut, ret>>
  /\ UNCHANGED <<cfgVars, evVars, scinVars, fNGood, nTrackTimes>>
  /\ scratch' = IF fSelUsingPrune = 1 /\ fNtracks > 0
                THEN scratch \cup {"fKeep", "fReject"} ELSE scratch
  /\ UNCHANGED leakedScratch
  /\ UNCHANGED <<goldenAtEntry, dbVars>>

\* The first loop of a cut: fNGood.
CountGood(k) ==
  Cardinality({i \in 1..fNtracks : Passes(k, fTracks[i], fPrune) /\ fKeep[i]})

\* A cut applied whether or not a kept track passes it.
AlwaysApplied(n) == TRUE

\* if ( fNGood > 0 ): whether the second loop of a cut runs.
Applied(n) == n > 0

\* One cut: lines 666-679 for the first, and so on to lines 834-847.
TC_PruneCut ==
  /\ pc = "cut"
  /\ LET n == CountGood(icut)
     IN /\ fNGood' = n
        /\ IF Applied(n)
           THEN /\ fKeep' = [i \in 1..fNtracks |->
                               IF Fails(icut, fTracks[i], fPrune) THEN FALSE ELSE fKeep[i]]
                /\ fReject' = [i \in 1..fNtracks |->
                                 IF Fails(icut, fTracks[i], fPrune)
                                 THEN fReject[i] + RejectCode(icut) ELSE fReject[i]]
           ELSE UNCHANGED <<fKeep, fReject>>
  /\ icut' = IF icut < NCuts THEN icut + 1 ELSE icut
  /\ pc' = IF icut < NCuts THEN "cut" ELSE "pick"
  /\ UNCHANGED <<cfgVars, fPrune, evVars, fGoldenTrack, fGoodTrack, fChi2Min,
                 scinVars, ret, nTrackTimes>>
  /\ UNCHANGED <<goldenAtEntry, dbVars, heapVars>>

\* lines 850-859: the best kept track among the tracks i..fNtracks-1
\* (0-based), from the state b.
RECURSIVE PickScan(_, _)
PickScan(i, b) ==
  IF i >= fNtracks THEN b
  ELSE IF Less(Chi2PerDeg(fTracks[i + 1]), b.chi2Min) /\ fKeep[i + 1]
       THEN PickScan(i + 1, [good |-> i, chi2Min |-> Chi2PerDeg(fTracks[i + 1])])
       ELSE PickScan(i + 1, b)

\* lines 849-870.  The contents of fKeep and fReject stay what they were
\* when the arrays were deleted.
TC_PrunePick ==
  /\ pc = "pick"
  /\ LET b == PickScan(0, [good |-> fGoodTrack, chi2Min |-> fChi2Min])
     IN /\ fGoodTrack' = b.good
        /\ fChi2Min' = b.chi2Min
        /\ fGoldenTrack' = fTracks[b.good + 1].ptr
  /\ pc' = "times"
  /\ UNCHANGED <<cfgVars, fPrune, evVars, scinVars, pruneVars, ret, nTrackTimes>>
  /\ scratch' = scratch \ {"fKeep", "fReject"}
  /\ UNCHANGED leakedScratch
  /\ UNCHANGED <<goldenAtEntry, dbVars>>

(* --------------------------- TrackTimes ------------------------------- *)

\* lines 881 and 885-894: TrackCalc returns what TrackTimes returns.
TrackTimes ==
  /\ pc = "times"
  /\ nTrackTimes' = nTrackTimes + 1
  /\ ret' = 0
  /\ pc' = "done"
  /\ UNCHANGED <<cfgVars, fPrune, evVars, fGoldenTrack, fGoodTrack, fChi2Min,
                 scinVars, pruneVars>>
  /\ UNCHANGED <<goldenAtEntry, dbVars, heapVars>>

(* ------------------- FindVertices: target transform ------------------- *)

\* InitializeReconstruction (lines 150-156), called by ReadDatabase: the
\* header block that would set these is skipped, they stay 0.
fAngSlope_x == 0
fAngSlope_y == 0
fAngOffset_x == 0
fAngOffset_y == 0
fDetOffset_x == 0
fDetOffset_y == 0
fZTrueFocus == 0

\* The offsets and the central momentum of the parameter database: all
\* offsets zero, and a setting with three different offsets.
ZeroCalib == [PhiOffset |-> 0, ThetaOffset |-> 0, DeltaOffset |-> 0, Pcentral |-> 1]
CalibSamples ==
  {ZeroCalib, [PhiOffset |-> 30, ThetaOffset |-> 50, DeltaOffset |-> 70, Pcentral |-> 2]}

\* lines 337-343: hut[0..4] (1-based here), gbeam_y being 0.
hut(t) ==
  <<t.X + fZTrueFocus * t.Theta + fDetOffset_x,
    t.Theta + fAngOffset_x,
    t.Y + fZTrueFocus * t.Phi + fDetOffset_y,
    t.Phi + fAngOffset_y,
    0>>

\* lines 349-353
hut_rot(t) ==
  LET h == hut(t)
  IN <<h[1], h[2] + h[1] * fAngSlope_x, h[3], h[4] + h[3] * fAngSlope_y, h[5]>>

\* pow(x, n) for an integer n >= 0; pow(x, 0) is 1 for every x.
RECURSIVE pow(_, _)
pow(x, n) == IF n = 0 THEN 1 ELSE x * pow(x, n - 1)

\* The largest total degree of a term of the sample tables: the sums are
\* in unit 0.01^MaxDegree.
MaxDegree == 2

\* lines 362-367: term, the product of the inputs 1..j raised to their
\* exponents, a zero exponent being skipped.
RECURSIVE TermProduct(_, _, _)
TermProduct(in, exps, j) ==
  IF j = 0 THEN 1
  ELSE IF exps[j] # 0
       THEN TermProduct(in, exps, j - 1) * pow(in[j], exps[j])
       ELSE TermProduct(in, exps, j - 1)

\* The total degree of a term.
Degree(exps) == exps[1] + exps[2] + exps[3] + exps[4] + exps[5]

\* term in the unit of the sums.
TermValue(in, exps) == TermProduct(in, exps, 5) * pow(100, MaxDegree - Degree(exps))

\* lines 357-371: sum[k] (k = 1..4 here) over the terms 1..n of the table.
RECURSIVE CosySum(_, _, _, _)
CosySum(terms, n, in, k) ==
  IF n = 0 THEN 0
  ELSE CosySum(terms, n - 1, in, k) + TermValue(in, terms[n].Exp) * terms[n].Coeff[k]

\* THaTrack::SetTarget(x, y, theta, phi) with theta and phi exchanged.
SetTargetSwapped(t, y, theta, phi) == [t EXCEPT !.TY = y, !.TTheta = phi, !.TPhi = theta]

\* THaTrack::SetTarget(x, y, theta, phi), line 377: theta is the xp (dx/dz)
\* and phi the yp (dy/dz) of lines 373-375.
SetTarget(t, y, theta, phi) == [t EXCEPT !.TY = y, !.TTheta = theta, !.TPhi = phi]

\* lines 331-382 for one track.
Vertex(t) ==
  LET in == hut_rot(t)
      sum == [k \in 1..4 |-> CosySum(fReconTerms, fNReconTerms, in, k)]
      t1 == SetTarget(t, sum[2] * 100, sum[1] + fCalib.PhiOffset, sum[3] + fCalib.ThetaOffset)
      dp == sum[4] * 100 + fCalib.DeltaOffset
  IN [t1 EXCEPT !.Dp = dp, !.P = fCalib.Pcentral * (1000000 + dp)]

\* The target quantities of a track FindVertices has not seen yet (kBig).
NoTarget == 999999

\* Focal plane tracks: x, theta, y, phi.
FocalSamples ==
  {[BaseTrack EXCEPT !.X = f[1], !.Theta = f[2], !.Y = f[3], !.Phi = f[4],
                     !.TY = NoTarget, !.TTheta = NoTarget, !.TPhi = NoTarget,
                     !.Dp = NoTarget, !.P = NoTarget] :
     f \in {<<2, 0, 0, 0>>, <<0, 0, 0, 0>>, <<-3, 1, 5, -1>>, <<2, 3, 0, 1>>}}

\* Terms a coefficient file can hold, and the tables of the samples.
LinearX == [Coeff |-> <<1, 0, 0, 0>>, Exp |-> <<1, 0, 0, 0, 0>>]
TermSamples ==
  {LinearX,
   [Coeff |-> <<0, 1, 0, 0>>, Exp |-> <<0, 0, 1, 0, 0>>],
   [Coeff |-> <<0, 0, 1, 0>>, Exp |-> <<0, 0, 0, 1, 0>>],
   [Coeff |-> <<1, 2, 3, 4>>, Exp |-> <<0, 0, 0, 0, 0>>],
   [Coeff |-> <<1, 1, 1, -1>>, Exp |-> <<1, 1, 0, 0, 0>>],
   [Coeff |-> <<0, 0, 0, 2>>, Exp |-> <<2, 0, 0, 0, 0>>]}
TableSamples ==
  {<<>>} \cup {<<a>> : a \in TermSamples} \cup {<<LinearX, a>> : a \in TermSamples}

\* THcHallCSpectrometer::FindVertices on the tracks of the event.
FindVertices ==
  /\ pc = "tracked"
  /\ fNtracks' = Len(fTracks)
  /\ fTracks' = [i \in 1..Len(fTracks) |-> Vertex(fTracks[i])]
  /\ pc' = "begin"
  /\ UNCHANGED <<cfgVars, fPrune, fNScinHits, fGoodRawPad, fGoldenTrack, fGoodTrack,
                 fChi2Min, scinVars, pruneVars, ret, nTrackTimes, goldenAtEntry>>
  /\ UNCHANGED <<dbVars, heapVars>>

(* ------------------------- specifications ----------------------------- *)

\* The members the coefficient load writes, after construction.
DBStart ==
  /\ dbExists = FALSE
  /\ dbFile = <<>>
  /\ dbNewline = TRUE
  /\ fReconTerms = <<>>
  /\ fNReconTerms = 0
  /\ dbStatus = "none"
  /\ dbHodoFound = FALSE
  /\ loadedFile = <<FALSE, <<>>, TRUE>>
  /\ reloaded = FALSE

\* No event yet, under the configuration <<scin, prune, sorting>>.
SelStart(scin, prune, sorting) ==
  /\ fSelUsingScin = scin
  /\ fSelUsingPrune = prune
  /\ trSorting = sorting
  /\ fCalib = ZeroCalib
  /\ fTracks = <<>>
  /\ fNtracks = 0
  /\ fNScinHits = <<0, 0, 0, 0>>
  /\ fGoodRawPad = <<>>
  /\ pc = "idle"
  /\ fGoldenTrack = NULL
  /\ fGoodTrack = 0
  /\ fChi2Min = <<0, 1>>
  /\ itrack = 0
  /\ fRawIndex = -1
  /\ fY2Dmin = DistStart
  /\ fX2Dmin = DistStart
  /\ fX2D = <<>>
  /\ fY2D = <<>>
  /\ f2XHits = {}
  /\ f2YHits = {}
  /\ fKeep = <<>>
  /\ fReject = <<>>
  /\ icut = 1
  /\ fNGood = 0
  /\ ret = 0
  /\ nTrackTimes = 0
  /\ goldenAtEntry = NULL
  /\ scratch = {}
  /\ leakedScratch = FALSE

\* The strategy configurations: A with and without sorting (the
\* constructor turns sorting on, SetTrSorting turns it off), B, C.
Configs == {<<0, 0, TRUE>>, <<0, 0, FALSE>>, <<1, 0, TRUE>>, <<0, 1, TRUE>>}

DBInit ==
  /\ DBStart
  /\ SelStart(0, 0, TRUE)
  /\ fPrune = PruneUnset
  /\ fPruneLoaded = fPrune

DBNext == ReadDatabase \/ AppendLine \/ ChopNewline \/ CreateFile

SpecDB == DBInit /\ [][DBNext]_vars

\* A table is loaded and the tracking stage has filled the track array.
FVInit ==
  /\ dbExists = TRUE
  /\ dbFile = <<>>
  /\ dbNewline = TRUE
  /\ fReconTerms \in TableSamples
  /\ fNReconTerms = Len(fReconTerms)
  /\ dbStatus = kOK
  /\ dbHodoFound = TRUE
  /\ loadedFile = <<FALSE, <<>>, TRUE>>
  /\ reloaded = FALSE
  /\ fSelUsingScin = 0
  /\ fSelUsingPrune = 0
  /\ trSorting = TRUE
  /\ fCalib \in CalibSamples
  /\ fTracks \in Events(FocalSamples)
  /\ fNtracks = 0
  /\ fNScinHits = <<0, 0, 0, 0>>
  /\ fGoodRawPad = <<>>
  /\ pc = "tracked"
  /\ fGoldenTrack = NULL
  /\ fGoodTrack = 0
  /\ fChi2Min = <<0, 1>>
  /\ itrack = 0
  /\ fRawIndex = -1
  /\ fY2Dmin = DistStart
  /\ fX2Dmin = DistStart
  /\ fX2D = <<>>
  /\ fY2D = <<>>
  /\ f2XHits = {}
  /\ f2YHits = {}
  /\ fKeep = <<>>
  /\ fReject = <<>>
  /\ icut = 1
  /\ fNGood = 0
  /\ ret = 0
  /\ nTrackTimes = 0
  /\ goldenAtEntry = NULL
  /\ scratch = {}
  /\ leakedScratch = FALSE
  /\ fPrune = PruneUnset
  /\ fPruneLoaded = fPrune

FVNext == FindVertices

SpecFV == FVInit /\ [][FVNext]_vars

Init ==
  /\ DBStart
  /\ \E c \in Configs : SelStart(c[1], c[2], c[3])
  /\ fPrune \in PruneConfigs
  /\ fPruneLoaded = fPrune

Next ==
  \/ NewEvent
  \/ TC_Begin
  \/ TC_SortedFirst
  \/ TC_ScinEnter
  \/ TC_ScinTrack
  \/ TC_ScinFallback
  \/ TC_PruneEnter
  \/ TC_PruneCut
  \/ TC_PrunePick
  \/ TrackTimes
  \/ ClearEvent

Spec == Init /\ [][Next]_vars

(* ======================= claims: ReadDatabase ========================= *)

\* The lines of a file that are the separator line.
SeparatorLines(file) == {i \in 1..Len(file) : file[i].pfx = " ---"}

\* The data block of a file is closed by the separator line: the header
\* block ends at the first separator line and the data block at the second.
DataBlockClosed(file) == Cardinality(SeparatorLines(file)) >= 2

\* A ReadDatabase call that found the hodoscope has returned.
LoadAttempted == dbStatus # "none" /\ dbHodoFound

\* C9 (as stated): the load returns an initialization error if and only if
\* the file cannot be opened or its data block is not closed by the
\* separator line; a file whose data block is closed loads successfully,
\* with or without a newline after its last line.
C9_ErrorIffUnclosed ==
  LoadAttempted =>
    (dbStatus = kInitError <=> (~loadedFile[1] \/ ~DataBlockClosed(loadedFile[2])))

\* C10: a second ReadDatabase call in a row on the same file, after a call
\* that returned kOK, returns kOK and leaves the term table (terms, their
\* order, their count) as the first call left it.
C10_ReloadIdempotent ==
  [][(reloaded' /\ dbHodoFound' /\ loadedFile' = <<dbExists, dbFile, dbNewline>>
        /\ loadedFile = loadedFile' /\ dbStatus = kOK /\ dbFile' = dbFile)
       => (dbStatus' = kOK /\ fReconTerms' = fReconTerms /\ fNReconTerms' = fNReconTerms)]_vars

\* C10 witness: a file with at least two data lines has been loaded twice
\* in a row.
C10_Witness ==
  /\ reloaded
  /\ dbHodoFound
  /\ dbStatus = kOK
  /\ fNReconTerms >= 2
  /\ \E i \in 1..Len(fReconTerms) : fReconTerms[i].Exp[1] = 1

(* ======================== claims: TrackCalc =========================== *)

StrategyA == fSelUsingScin = 0 /\ fSelUsingPrune = 0
StrategyB == fSelUsingScin = 1
StrategyC == fSelUsingPrune = 1

\* TrackCalc has returned.
Returned == pc = "done"

\* No slot of the track array is empty.
NoEmptySlot == \A i \in 1..fNtracks : ~IsNull(fTracks[i])

\* chi2/ndof of the track in slot i.
Quality(i) == Chi2PerDeg(fTracks[i])

\* C1: after TrackCalc has processed an event with no candidate, the golden
\* reference is null, under every strategy configuration and whatever it
\* designated before.
C1_EmptyClearsGolden ==
  (Returned /\ fNtracks = 0) => fGoldenTrack = NULL

\* C1 witness: strategy B has processed an empty event that arrived while
\* the golden reference still pointed at a track of an earlier event.
C1_Witness ==
  /\ Returned
  /\ StrategyB
  /\ fNtracks = 0
  /\ goldenAtEntry = Stale
  /\ fGoldenTrack = NULL

\* C2: strategy A on a non-empty candidate set.  With sorting the golden
\* track has the least chi2/ndof of the event, the earliest in the original
\* order among equals (ptr is the original slot); without sorting it is the
\* track of slot 0 of the original order.
C2_SortedFirst ==
  (Returned /\ StrategyA /\ fNtracks > 0 /\ NoEmptySlot) =>
    IF trSorting
    THEN \E i \in 1..fNtracks :
           /\ fGoldenTrack = fTracks[i].ptr
           /\ \A j \in 1..fNtracks :
                /\ ~Less(Quality(j), Quality(i))
                /\ Same(Quality(j), Quality(i)) => fTracks[i].ptr <= fTracks[j].ptr
    ELSE fGoldenTrack = 1

\* C2 witness: sorting has moved the second track of an event in front of
\* the first, and it is golden.
C2_Witness ==
  /\ Returned
  /\ StrategyA
  /\ trSorting
  /\ fNtracks = 2
  /\ NoEmptySlot
  /\ fGoldenTrack = 2
  /\ nTrackTimes = 1

\* The slots whose track passes the degrees of freedom cut and the range
\* cuts of strategy B.
Qualifying == {i \in 1..fNtracks : PassesNDegrees(fTracks[i]) /\ PassesRanges(fTracks[i])}

\* The slots whose track passes the degrees of freedom cut.
DofPassing == {i \in 1..fNtracks : PassesNDegrees(fTracks[i])}

\* The hit paddles of plane ip (1-based) in the hit list of the event.
HitPaddles(ip) == PadsRead(FirstOfPlane(-1, ip - 1), fNScinHits[ip], NoPaddle)

\* The consistency distance of a track pointing at paddle hitCnt (1-based)
\* of a plane: the least paddle distance to a hit paddle of the plane, 0 in
\* an event of one candidate or with no hit paddle in the plane.
Distance(hitCnt, pads) ==
  LET D == {Abs(hitCnt - p - 1) : p \in pads}
  IN IF fNtracks = 1 \/ pads = {} THEN 0 ELSE CHOOSE d \in D : \A e \in D : d <= e

\* The triple (Y-plane distance, X-plane distance, chi2/ndof) of slot i.
Score(i) ==
  <<Distance(fHitCnt4(fTracks[i]), HitPaddles(4)),
    Distance(fHitCnt3(fTracks[i]), HitPaddles(3)),
    Quality(i)>>

LexLess(a, b) ==
  \/ a[1] < b[1]
  \/ a[1] = b[1] /\ a[2] < b[2]
  \/ a[1] = b[1] /\ a[2] = b[2] /\ Less(a[3], b[3])

\* C3 (as stated): strategy B, some candidate passing the degrees of
\* freedom cut and the range cuts: the golden track is a qualifying track
\* whose triple (Y distance, X distance, chi2/ndof) is least among the
\* qualifying tracks, in whatever order the tracks are stored.
C3_ScinLexMin ==
  (Returned /\ StrategyB /\ NoEmptySlot /\ Qualifying # {}) =>
    \E i \in Qualifying :
      /\ fGoldenTrack = fTracks[i].ptr
      /\ \A j \in Qualifying : ~LexLess(Score(j), Score(i))

\* C4 (as stated): strategy B, a non-empty candidate set none of which
\* passes the degrees of freedom and range cuts: the golden track has the
\* least chi2/ndof of the tracks passing the degrees of freedom cut, and
\* the golden reference is null if there is no such track.
C4_ScinFallback ==
  (Returned /\ StrategyB /\ fNtracks > 0 /\ NoEmptySlot /\ Qualifying = {}) =>
    IF DofPassing # {}
    THEN \E i \in DofPassing :
           /\ fGoldenTrack = fTracks[i].ptr
           /\ \A j \in DofPassing : ~Less(Quality(j), Quality(i))
    ELSE fGoldenTrack = NULL

C6_SoftCuts ==
  [][pc = "cut" =>
       LET passing == {i \in 1..fNtracks :
                         fKeep[i] /\ Passes(icut, fTracks[i], fPrune)}
       IN /\ IF passing # {}
             THEN \A i \in 1..fNtracks :
                    /\ fKeep'[i] = (fKeep[i] /\ Passes(icut, fTracks[i], fPrune))
                    /\ (fReject'[i] # fReject[i]) = ~Passes(icut, fTracks[i], fPrune)
             ELSE fKeep' = fKeep /\ fReject' = fReject
          /\ \E i \in 1..fNtracks : fKeep'[i]]_vars

\* C6 witness: the first cut has been applied and has taken a track out,
\* and the second, which no kept track passes, has been skipped.
C6_Witness ==
  /\ StrategyC
  /\ pc = "cut"
  /\ icut = 3
  /\ fNGood = 0
  /\ \E i \in 1..fNtracks : ~fKeep[i] /\ fReject[i] = RejectCode(1)
  /\ \E i \in 1..fNtracks : fKeep[i] /\ ~Passes(2, fTracks[i], fPrune)

\* The slots kept after the cuts.
Kept == {i \in 1..fNtracks : fKeep[i]}

\* C7 (as stated): strategy C on a non-empty candidate set, after the cuts:
\* the golden track is a kept track with the least chi2/ndof of the kept
\* tracks, whatever their chi2 and ndof; with no kept track the golden
\* reference is null.
C7_PruneBestKept ==
  (Returned /\ StrategyC /\ fNtracks > 0 /\ NoEmptySlot) =>
    IF Kept # {}
    THEN \E i \in Kept :
           /\ fGoldenTrack = fTracks[i].ptr
           /\ \A j \in Kept : ~Less(Quality(j), Quality(i))
    ELSE fGoldenTrack = NULL

\* A lookup of TrackCalc in the track array has returned the null pointer:
\* At(0) under strategy A, the track the loop of strategy B stopped at, any
\* slot under strategy C.
LookupYieldedNull ==
  /\ fNtracks > 0
  /\ IF StrategyC THEN FirstNull(fTracks) # 0
     ELSE IF StrategyB THEN itrack < fNtracks /\ IsNull(fTracks[itrack + 1])
     ELSE IsNull(fTracks[1])

\* C8 (as stated): under every strategy, when a lookup in the track array
\* yields a null entry, TrackCalc returns a non-zero code and TrackTimes has
\* not been called.
C8_NullAborts ==
  (pc \in {"done", "crashed"} /\ LookupYieldedNull) =>
    (Returned /\ ret # 0 /\ nTrackTimes = 0)

(* ======================= claims: FindVertices ========================= *)

\* The factor of an input with an exponent: 1 for the exponent 0, whatever
\* the input.
Factor(x, e) == IF e = 0 THEN 1 ELSE pow(x, e)

\* The sum over the terms of the table of coeff[k] times the product of the
\* five rotated inputs of the track t raised to the exponents of the term
\* (k = 0..3), in the unit of the sums.
RECURSIVE SumOfTerms(_, _, _)
SumOfTerms(t, k, n) ==
  IF n = 0 THEN 0
  ELSE LET e == fReconTerms[n].Exp
           in == hut_rot(t)
           product == Factor(in[1], e[1]) * Factor(in[2], e[2]) * Factor(in[3], e[3])
                        * Factor(in[4], e[4]) * Factor(in[5], e[5])
       IN SumOfTerms(t, k, n - 1)
            + fReconTerms[n].Coeff[k + 1] * product * pow(100, MaxDegree - Degree(e))

PolySum(t, k) == SumOfTerms(t, k, Len(fReconTerms))

\* FindVertices has run on the tracks of the event.
Transformed == pc = "begin" /\ fNtracks = Len(fTracks)

\* What FindVertices writes besides the two target angles.
TargetYDpP(t) ==
  /\ t.TY = 100 * PolySum(t, 1)
  /\ t.Dp = 100 * PolySum(t, 3) + fCalib.DeltaOffset
  /\ t.P = fCalib.Pcentral * (1000000 + t.Dp)

\* C11 (as stated): FindVertices writes target-y = 100*sum[1], target-phi =
\* sum[0] + phi-offset, target-theta = sum[2] + theta-offset, delta =
\* 100*sum[3] + delta-offset and momentum = pcentral*(1 + delta/100) into
\* every track, a zero exponent giving the factor 1.
C11_TargetTransform ==
  Transformed =>
    \A i \in 1..Len(fTracks) :
      /\ TargetYDpP(fTracks[i])
      /\ fTracks[i].TPhi = PolySum(fTracks[i], 0) + fCalib.PhiOffset
      /\ fTracks[i].TTheta = PolySum(fTracks[i], 2) + fCalib.ThetaOffset

\* C11 (amended): as stated, but with the two angles the other way round:
\* target-theta = sum[0] + phi-offset and target-phi = sum[2] + theta-offset.
C11_TargetTransformXp ==
  Transformed =>
    \A i \in 1..Len(fTracks) :
      /\ TargetYDpP(fTracks[i])
      /\ fTracks[i].TTheta = PolySum(fTracks[i], 0) + fCalib.PhiOffset
      /\ fTracks[i].TPhi = PolySum(fTracks[i], 2) + fCalib.ThetaOffset

\* C11 witness: the table of the one term coeff = [1,0,0,0], exp =
\* [1,0,0,0,0], zero offsets, a track at focal plane x = 2.0: its target
\* theta is 2.0/100 (200 in unit 10^-4) and its target phi is 0.
C11_Witness ==
  /\ Transformed
  /\ fReconTerms = <<LinearX>>
  /\ fCalib = ZeroCalib
  /\ \E i \in 1..Len(fTracks) :
       /\ fTracks[i].X = 2
       /\ fTracks[i].TTheta = 200
       /\ fTracks[i].TPhi = 0
       /\ fTracks[i].TY = 0
       /\ fTracks[i].P = 1000000

(* ==================== claims: TrackCalc, continued ==================== *)

\* The event is over for TrackCalc: it has returned, or the process has
\* died in it.
Ended == pc \in {"done", "crashed"}

LeastDistance(hitCnt, marked) ==
  LET D == {Abs(hitCnt - p - 1) : p \in marked}
  IN CHOOSE d \in D : \A e \in D : d <= e

\* C13 (as stated): strategy B, more than one candidate: the distance of a
\* qualifying track in plane 4 and in plane 3 is the least paddle distance
\* between the paddle it points at and all the paddles marked hit in the
\* plane, however many are marked.
C13_DistanceOverAllHits ==
  [][(/\ pc = "scinloop"
      /\ pc' \in {"scinloop", "fallback"}
      /\ fNtracks > 1
      /\ PassesNDegrees(fTracks[itrack + 1])
      /\ PassesRanges(fTracks[itrack + 1]))
     => /\ f2YHits' # {} =>
             fY2D'[itrack + 1] = LeastDistance(fHitCnt4(fTracks[itrack + 1]), f2YHits')
        /\ f2XHits' # {} =>
             fX2D'[itrack + 1] = LeastDistance(fHitCnt3(fTracks[itrack + 1]), f2XHits')]_vars

\* C14 (as stated): strategy B: the walk of the planes for a qualifying
\* track, the first or a later one of the event, starts with the running
\* index before the first entry of the flat hit list, so that every read
\* is inside the list, and marks in planes 3 and 4 the hit paddles of the
\* event.
C14_RunningIndexAligned ==
  [][(/\ pc = "scinloop"
      /\ ~IsNull(fTracks[itrack + 1])
      /\ PassesNDegrees(fTracks[itrack + 1])
      /\ PassesRanges(fTracks[itrack + 1]))
     => /\ fRawIndex = -1
        /\ pc' # "crashed"
        /\ fRawIndex' <= TotalHits - 1
        /\ f2XHits' = HitPaddles(3)
        /\ f2YHits' = HitPaddles(4)]_vars

(* ===================== claims: scratch buffers ======================== *)

\* C16 (as stated): when TrackCalc has returned, with status 0 or with -1
\* after a null entry, none of the scratch arrays it allocated (fX2D, fY2D,
\* f2XHits, f2YHits, fKeep, fReject) is still allocated, and between two
\* events no scratch array of an earlier event is still allocated.
C16_ScratchReleased ==
  /\ Returned => scratch = {}
  /\ pc = "idle" => ~leakedScratch

(* ===================== claims: prune thresholds ======================= *)

\* A cut of strategy C is being applied, or the pick among the kept
\* tracks follows the cuts.
CutsInUse == StrategyC /\ pc \in {"cut", "pick"}

\* The floors as the claim lists them (unit 0.01).
ListedFloors ==
  [Xp |-> 8, Yp |-> 4, Ytar |-> 400, Delta |-> 1300, Beta |-> 10, Df |-> 100,
   ChiBeta |-> 200, FpTime |-> 500, NPMT |-> 600]

PruneFields == DOMAIN ListedFloors

\* C17: strategy C: every threshold a cut compares against is the larger of
\* the loaded value and its floor (xp 0.08, yp 0.04, ytar 4.0, delta 13.0,
\* beta 0.1, df 1.0, chi-beta 2.0, fp-time 5.0, npmt 6.0), in the first
\* event and in every later one: clamping clamped values changes nothing.
C17_ThresholdsClamped ==
  CutsInUse =>
    \A f \in PruneFields :
      fPrune[f] = IF fPruneLoaded[f] > ListedFloors[f]
                  THEN fPruneLoaded[f] ELSE ListedFloors[f]

\* A cut is applied in a later event, with a loaded threshold above its
\* floor, one below it, and a track the raised threshold lets pass.
C17_Witness ==
  /\ CutsInUse
  /\ leakedScratch
  /\ icut = 1
  /\ fPruneLoaded.Xp > ListedFloors.Xp
  /\ fPruneLoaded.Yp < ListedFloors.Yp
  /\ \E i \in 1..fNtracks :
       /\ Passes(1, fTracks[i], fPrune)
       /\ Abs(fTracks[i].TTheta) >= ListedFloors.Xp

(* ================= claims: the golden track reference ================= *)

\* fGoldenTrack points at a track object of the event just processed.
GoldenOfThisEvent ==
  \E i \in 1..fNtracks : ~IsNull(fTracks[i]) /\ fTracks[i].ptr = fGoldenTrack

\* C18 (as stated): whenever TrackCalc has returned, with status 0 or with
\* a failure status, fGoldenTrack is null or points at a track of the event
\* just processed, never at a track of an earlier event.
C18_GoldenNullOrCurrent ==
  Returned => (fGoldenTrack = NULL \/ GoldenOfThisEvent)

(* ================== claims: ReadDatabase, continued =================== *)

\* The lines of the data block of a file whose data block is closed: those
\* between its first and its second separator line.
DataBlock(file) ==
  LET S == SeparatorLines(file)
      first == CHOOSE i \in S : \A j \in S : i <= j
      second == CHOOSE i \in S \ {first} : \A j \in S \ {first} : i <= j
  IN SubSeq(file, first + 1, second - 1)

\* A line that parses as 4 floats followed by 5 one-digit exponents.
ParsesAsTerm(line) == Len(line.items) = 9

\* The terms of the lines of a block that parse, in the order of the lines.
RECURSIVE TermsOf(_)
TermsOf(block) ==
  IF block = <<>> THEN <<>>
  ELSE LET line == block[Len(block)]
           rest == TermsOf(SubSeq(block, 1, Len(block) - 1))
       IN IF ParsesAsTerm(line)
          THEN Append(rest, [Coeff |-> SubSeq(line.items, 1, 4),
                             Exp |-> SubSeq(line.items, 5, 9)])
          ELSE rest

\* C15 (as stated): after a load that returned kOK the table holds one term
\* per data line that parses, in the order of the file, and the term count
\* is their number; a line of the data block that does not parse adds no
\* term.
C15_OneTermPerParsedLine ==
  (LoadAttempted /\ dbStatus = kOK) =>
    /\ fReconTerms = TermsOf(DataBlock(loadedFile[2]))
    /\ fNReconTerms = Len(TermsOf(DataBlock(loadedFile[2])))

====
